---- MODULE Spec2Model ----
(***************************************************************************)
(* A model of LarderAPI (src/LarderAPI.py) and of the backup pipeline      *)
(* built on it (src/LarderBackup.py).                                      *)
(*                                                                         *)
(* Two state machines share the definitions of the API layer:              *)
(*   LoaderSpec  a single client calling HttpInterface.get,                *)
(*               RESTObject.get_all, Folder.get_bookmarks and              *)
(*               Folder.refresh_bookmarks against a paginated server;      *)
(*   Spec        the thread pool of backup(): one _load_folder and one     *)
(*               _process_folder task per folder, the shared queue, the    *)
(*               writer lock and the output stream.                        *)
(*                                                                         *)
(* backup() obtains its work list at src/LarderBackup.py:82 by calling     *)
(* Folder.get_all_folders(), a name src/LarderAPI.py does not define (the  *)
(* classmethod is Folder.get_all).  Spec models the run from the work list *)
(* on (lines 85-96): the list is an input of Init.                         *)
(***************************************************************************)
EXTENDS Integers, Sequences, FiniteSets, TLC

VARIABLES
    \* ---- API layer
    token,        \* HttpInterface.token ("<None>" models None)
    server,       \* endpoint -> chain of pages the remote API serves there
    folder,       \* folder id -> the Folder object's bookmarks and _fetched
    last,         \* record of the last API call made by the client
    \* ---- backup pipeline
    folders,      \* the work list of backup(): a sequence of folder ids
    main,         \* position of the orchestrator inside backup()
    nsub,         \* number of tasks handed to executor.submit so far
    ftask,        \* position of each _load_folder task
    wtask,        \* position of each _process_folder task
    wfolder,      \* folder_object of each _process_folder task (0: none yet)
    pending,      \* bookmarks each _dump_folder_to_output has still to write
    task_queue,   \* the Queue: folder ids, oldest first
    unfinished,   \* Queue.unfinished_tasks
    writer_lock,  \* TRUE while the Lock is held
    out,          \* the lines written to out_file so far
    pool_width,   \* number of worker threads of the executor
    \* ---- entities
    entity,       \* the Tag, Bookmark or Folder instance the client holds
    cache,        \* _FOLDERCACHE: folder id -> cached Folder
    call,         \* record of the last entity call made by the client
    \* ---- history of the run (not program state)
    enqOrder,     \* folders in the order put_nowait enqueued them
    deqOrder,     \* folders in the order task_queue.get returned them
    lockOrder     \* folders in the order their write task took writer_lock

apiVars == <<token, server, folder, last>>
poolVars == <<folders, main, nsub, ftask, wtask, wfolder, pending,
              task_queue, unfinished, writer_lock, out, pool_width>>
entVars == <<entity, cache, call>>
histVars == <<enqOrder, deqOrder, lockOrder>>
vars == <<token, server, folder, last, folders, main, nsub, ftask, wtask,
          wfolder, pending, task_queue, unfinished, writer_lock, out,
          pool_width, entity, cache, call, enqOrder, deqOrder, lockOrder>>

\* ------------------------------------------------------------------ bounds
MaxPages == 2
MaxFolders == 2

\* ------------------------------------------------------- program constants
\* ThreadPoolExecutor(max_workers=8)
max_workers == 8

\* ----------------------------------------------------------- data of a run
NoToken == "<None>"
Tokens == {NoToken, "", "secret"}

\* A URL is an endpoint and a page of it; endpoint 0 is the collection
\* listing of a class, endpoint f > 0 the bookmark listing of folder f.
NoneUrl == [ep |-> -1, page |-> 0]
PageUrl(ep, p) == [ep |-> ep, page |-> p]

_get_qualified_apiurl == PageUrl(0, 1)
FolderUrl(id) == PageUrl(id, 1)

\* Raw JSON records as the server sends them.  The title is a function of the
\* id so that listings hold unsorted and equal titles.
TitleOf(i) == i % 2
RawRecord(i) == [id |-> i, title |-> TitleOf(i)]

\* cls(**f): the typed object built from a raw record.
Bookmark(bm) == [cls |-> "Bookmark", id |-> bm.id, title |-> bm.title]
RESTObject(f) == [cls |-> "RESTObject", id |-> f.id, title |-> f.title]

Decode(cls, results) ==
    [i \in 1..Len(results) |->
        IF cls = "Bookmark" THEN Bookmark(results[i]) ELSE RESTObject(results[i])]

\* The result arrays a page can carry (none, one or two records, the two in
\* descending id order), and the chains of up to MaxPages pages.
PageResults == {<<>>, <<RawRecord(1)>>, <<RawRecord(2)>>, <<RawRecord(2), RawRecord(1)>>}
PageChains == UNION {[1..n -> PageResults] : n \in 1..MaxPages}

\* ------------------------------------------------------------ HTTP layer
\* What can go wrong with one request: nothing, an error status with a JSON
\* error object, an error status with a body that is no JSON, or a success
\* status with a body that is no JSON.
FaultKinds == {"error_status", "server_error", "bad_json"}
NoFault == [at |-> 0, kind |-> "ok"]
Faults(n) == {NoFault} \cup [at : 1..n, kind : FaultKinds]

JsonPage(chain, url) ==
    [results |-> chain[url.page],
     next |-> IF url.page < Len(chain) THEN PageUrl(url.ep, url.page + 1) ELSE NoneUrl]
JsonError == [detail |-> "Not found."]

\* requests.get(url, headers): the response of the remote API.
requests_get(srv, url, kind) ==
    IF kind = "error_status" THEN [status |-> 404, parsable |-> TRUE, json |-> JsonError]
    ELSE IF kind = "server_error" THEN [status |-> 500, parsable |-> FALSE, json |-> JsonError]
    ELSE IF kind = "bad_json" THEN [status |-> 200, parsable |-> FALSE, json |-> JsonError]
    ELSE [status |-> 200, parsable |-> TRUE, json |-> JsonPage(srv[url.ep], url)]

\* HttpInterface.build_headers: raises when no token is configured.
\* A variant of build_headers that accepts a missing token.
build_headers_raises_never(tok) == FALSE

build_headers_raises(tok) == tok = NoToken \/ tok = ""

\* HttpInterface.get: build_headers, then requests.get(...).json().  The
\* status of the response is not looked at; .json() raises on a body that is
\* no JSON.
HttpInterface_get(tok, resp) ==
    IF build_headers_raises(tok)
    THEN [raised |-> TRUE, sent |-> FALSE, value |-> JsonError]
    ELSE IF ~resp.parsable
    THEN [raised |-> TRUE, sent |-> TRUE, value |-> JsonError]
    ELSE [raised |-> FALSE, sent |-> TRUE, value |-> resp.json]

\* -------------------------------------------------------- paginated fetch
\* A variant of extend that puts the new objects in front.
extend_in_front(list, objects) == objects \o list

\* list.extend(objects)
extend(list, objects) == list \o objects

\* The accumulator of a pagination loop: what it holds when it has not run.
NoFetch == [items |-> <<>>, requested |-> <<>>, sent |-> 0, events |-> <<>>, raised |-> FALSE]

\* A variant of the loop body without the pause.
sleep_skipped(events) == events

\* sleep(1), the last statement of the loop body (lines 87 and 166).
sleep(events) == Append(events, "sleep")

\* The while loop of RESTObject.get_all and of Folder.get_bookmarks: GET the
\* page, decode objects_json["results"], extend the accumulator, follow
\* objects_json["next"], sleep(1).  requested lists the URLs handed to
\* HttpInterface.get, sent counts the HTTP requests that left, events lists
\* the calls of HttpInterface.get and of sleep in the order they are made;
\* fault.at names the request that goes wrong.  An error object holds no "results" key, so
\* the subscript raises.
RECURSIVE fetch_pages(_, _, _, _, _, _)
fetch_pages(cls, tok, srv, fault, next_fetch, acc) ==
    IF next_fetch = NoneUrl THEN acc
    ELSE LET n == Len(acc.requested) + 1
             resp == requests_get(srv, next_fetch, IF fault.at = n THEN fault.kind ELSE "ok")
             got == HttpInterface_get(tok, resp)
             asked == [acc EXCEPT !.requested = Append(@, next_fetch),
                                  !.events = Append(@, "get"),
                                  !.sent = IF got.sent THEN @ + 1 ELSE @]
         IN  IF got.raised \/ "results" \notin DOMAIN got.value
             THEN [asked EXCEPT !.raised = TRUE]
             ELSE fetch_pages(cls, tok, srv, fault, got.value.next,
                      [asked EXCEPT !.items = extend(@, Decode(cls, got.value.results)),
                                    !.events = sleep(@)])

\* RESTObject.get_all: instances is a local list, returned when the loop ends.
get_all(tok, srv, fault) ==
    LET run == fetch_pages("RESTObject", tok, srv, fault, _get_qualified_apiurl, NoFetch)
    IN  [raised |-> run.raised,
         result |-> IF run.raised THEN <<>> ELSE run.items,
         requested |-> run.requested,
         sent |-> run.sent,
         events |-> run.events]

\* ------------------------------------------------------------ Folder loader
\* A Folder as get_all builds it: no bookmarks, not fetched.
NewFolder(id) == [id |-> id, bookmarks |-> <<>>, fetched |-> FALSE]

\* A variant of the lazy-loading test that always fetches.
needs_fetch_always(f) == TRUE

\* Folder.get_bookmarks, line 156: the lazy-loading test.
needs_fetch(f) == ~f.fetched

\* Folder.get_bookmarks.  self.bookmarks is reset and then extended in place
\* page by page, so what the loop has accumulated stays on the folder when a
\* page raises; _fetched is set only when the loop ends.
get_bookmarks(tok, srv, fault, f) ==
    IF needs_fetch(f)
    THEN LET run == fetch_pages("Bookmark", tok, srv, fault, FolderUrl(f.id), NoFetch)
             g == [f EXCEPT !.bookmarks = run.items, !.fetched = ~run.raised]
         IN  [folder |-> g,
              raised |-> run.raised,
              result |-> IF run.raised THEN <<>> ELSE g.bookmarks,
              requested |-> run.requested,
              sent |-> run.sent,
              events |-> run.events]
    ELSE [folder |-> f, raised |-> FALSE, result |-> f.bookmarks,
          requested |-> <<>>, sent |-> 0, events |-> <<>>]

\* A variant of refresh_bookmarks that leaves _fetched as it is.
refresh_bookmarks_keep_flag(tok, srv, fault, f) == get_bookmarks(tok, srv, fault, f)

\* Folder.refresh_bookmarks: _fetched = False, then get_bookmarks().
refresh_bookmarks(tok, srv, fault, f) ==
    get_bookmarks(tok, srv, fault, [f EXCEPT !.fetched = FALSE])

\* ----------------------------------------------------------------- entities
\* An instance of RESTObject or of one of its subclasses: its class, its id
\* (NoId models None, EmptyId the empty string, which is not None but is
\* false in a condition), its name (the title of a Bookmark) and its created
\* timestamp.
NoId == 0
EmptyId == -1
None == "<None>"
EntityIds == {1, 2}
Classes == {"RESTObject", "Tag", "Bookmark", "Folder"}
Names == {"a"}
Entity(cls, id, name, created) == [cls |-> cls, id |-> id, name |-> name, created |-> created]

\* One HTTP request of an entity call.
Req(method, path, id) == [method |-> method, path |-> path, id |-> id]

\* What an entity call leaves: the instance, the cache, the requests that
\* left, and the exception raised ("" when the call returned).
Outcome(e, cch, requests, error) ==
    [entity |-> e, cache |-> cch, requests |-> requests, error |-> error]

\* HttpInterface.post: build_headers, requests.post, IOError unless 201.
HttpInterface_post(tok, status) ==
    IF build_headers_raises(tok) THEN [error |-> "Exception", sent |-> FALSE]
    ELSE IF status # 201 THEN [error |-> "IOError", sent |-> TRUE]
    ELSE [error |-> "", sent |-> TRUE]

\* HttpInterface.delete: build_headers, requests.delete, IOError unless 204.
HttpInterface_delete(tok, status) ==
    IF build_headers_raises(tok) THEN [error |-> "Exception", sent |-> FALSE]
    ELSE IF status # 204 THEN [error |-> "IOError", sent |-> TRUE]
    ELSE [error |-> "", sent |-> TRUE]

\* The JSON the server returns for a saved entity: the id it assigned to an
\* added entity (or the id of the entity edited), the name posted, and its
\* own timestamp.
ServerSaved(req, e, newid) ==
    [id |-> IF req.path = "add" THEN newid ELSE req.id, name |-> e.name, created |-> "ts"]

\* for key, value in result_json.items(): setattr(self, key, value)
setattrs(e, json) ==
    [e EXCEPT !.id = json.id, !.name = json.name, !.created = json.created]

\* RESTObject.save, line 61: "if not self.id" selects the create request;
\* None and the empty string are both false.
save_creates(e) == e.id \in {NoId, EmptyId}

\* RESTObject.save
RESTObject_save(tok, e, cch, status, newid) ==
    LET req == IF save_creates(e) THEN Req("POST", "add", NoId)
               ELSE Req("POST", "edit", e.id)
        p == HttpInterface_post(tok, status)
    IN  IF p.error # ""
        THEN Outcome(e, cch, IF p.sent THEN <<req>> ELSE <<>>, p.error)
        ELSE Outcome(setattrs(e, ServerSaved(req, e, newid)), cch, <<req>>, "")

\* A variant of the name test of Tag.save that lets every tag through.
tag_name_missing_never(e) == FALSE

\* Tag.save, line 207: "if self.name is None"
tag_name_missing(e) == e.name = None

\* Tag.save
Tag_save(tok, e, cch, status, newid) ==
    IF tag_name_missing(e) THEN Outcome(e, cch, <<>>, "ValueError")
    ELSE RESTObject_save(tok, e, cch, status, newid)

\* Folder.save: super().save(), then _FOLDERCACHE[self.id] = self.
Folder_save(tok, e, cch, status, newid) ==
    LET r == RESTObject_save(tok, e, cch, status, newid)
    IN  IF r.error # "" THEN r
        ELSE [r EXCEPT !.cache = (r.entity.id :> r.entity) @@ cch]

\* save() as the class of the instance resolves it.
save(tok, e, cch, status, newid) ==
    IF e.cls = "Tag" THEN Tag_save(tok, e, cch, status, newid)
    ELSE IF e.cls = "Folder" THEN Folder_save(tok, e, cch, status, newid)
    ELSE RESTObject_save(tok, e, cch, status, newid)

\* RESTObject.delete: a request only when "self.id is not None".
delete(tok, e, cch, status) ==
    IF e.id # NoId
    THEN LET d == HttpInterface_delete(tok, status)
         IN  Outcome(e, cch, IF d.sent THEN <<Req("DELETE", "delete", e.id)>> ELSE <<>>, d.error)
    ELSE Outcome(e, cch, <<>>, "")

\* The response to the GET of RESTObject.load.
LoadResponse(e, kind) ==
    IF kind = "ok"
    THEN [status |-> 200, parsable |-> TRUE,
          json |-> [id |-> e.id, name |-> e.name, created |-> "ts"]]
    ELSE requests_get(<<>>, NoneUrl, kind)

\* RESTObject.load: GET the instance's URL when "self.id is not None" (the
\* result is not used), or EmptyObjectException.
RESTObject_load(tok, e, cch, kind) ==
    IF e.id # NoId
    THEN LET got == HttpInterface_get(tok, LoadResponse(e, kind))
         IN  Outcome(e, cch, IF got.sent THEN <<Req("GET", "", e.id)>> ELSE <<>>,
                     IF ~got.raised THEN ""
                     ELSE IF got.sent THEN "JSONDecodeError" ELSE "Exception")
    ELSE Outcome(e, cch, <<>>, "EmptyObjectException")

\* A variant of Tag.load and Bookmark.load that falls back on RESTObject.load.
unsupported_load_inherited(tok, e, cch, kind) == RESTObject_load(tok, e, cch, kind)

\* Bookmark.load and Tag.load: raise NotImplemented(...).  NotImplemented is
\* not callable, so the statement raises TypeError; nothing else runs.
unsupported_load(tok, e, cch, kind) == Outcome(e, cch, <<>>, "TypeError")

\* Folder.load: EmptyObjectException when the id is not in the cache;
\* otherwise getattr(cached_instance, field) is given a Field, not a name, and
\* raises TypeError before any attribute is set.
Folder_load(tok, e, cch, kind) ==
    IF e.id \notin DOMAIN cch THEN Outcome(e, cch, <<>>, "EmptyObjectException")
    ELSE Outcome(e, cch, <<>>, "TypeError")

\* load() as the class of the instance resolves it.
load(tok, e, cch, kind) ==
    IF e.cls \in {"Tag", "Bookmark"} THEN unsupported_load(tok, e, cch, kind)
    ELSE IF e.cls = "Folder" THEN Folder_load(tok, e, cch, kind)
    ELSE RESTObject_load(tok, e, cch, kind)

\* Folder.get_all: super().get_all(); "_FOLDERCACHE = folder_instances" binds
\* a local name, so the module's cache stays as it was; a copy is returned.
Folder_get_all(tok, srv, fault, cch) ==
    LET r == get_all(tok, srv, fault)
    IN  [result |-> r.result, cache |-> cch, sent |-> r.sent,
         error |-> IF ~r.raised THEN ""
                   ELSE IF r.sent = 0 THEN "Exception" ELSE "ResponseError"]

\* Whether the class Folder has an attribute get_all_folders: it has not.
Folder_has_get_all_folders == FALSE

\* backup, lines 76-84: init(token), then folders = Folder.get_all_folders().
\* The attribute lookup raises AttributeError; were the name defined as
\* Folder.get_all, the listing would be fetched.  The output file is opened
\* only at line 86.
backup_until_open(tok, srv, fault, cch) ==
    IF ~Folder_has_get_all_folders
    THEN [error |-> "AttributeError", sent |-> 0, opened |-> FALSE]
    ELSE LET r == Folder_get_all(tok, srv, fault, cch)
         IN  [error |-> r.error, sent |-> r.sent, opened |-> r.error = ""]

NoEntity == Entity("RESTObject", NoId, None, None)
NoEntityCall ==
    [op |-> "none", token |-> NoToken, error |-> "", requests |-> <<>>, sent |-> 0,
     before |-> NoEntity, cache_before |-> <<>>, result |-> <<>>, opened |-> FALSE]
EntitiesUnused == entity = NoEntity /\ cache = <<>> /\ call = NoEntityCall

\* ====================================================================
\* LoaderSpec: one client, one folder (id 1), calls of the API layer.
\* ====================================================================
TheFolder == 1

NoCall ==
    [op |-> "none", raised |-> FALSE, requested |-> <<>>, sent |-> 0, events |-> <<>>,
     result |-> <<>>, before |-> NewFolder(TheFolder), fault |-> NoFault,
     status |-> 0, parsable |-> FALSE, value |-> JsonError]

PoolUnused ==
    /\ folders = <<>> /\ main = "unused" /\ nsub = 0
    /\ ftask = <<>> /\ wtask = <<>> /\ wfolder = <<>> /\ pending = <<>>
    /\ task_queue = <<>> /\ unfinished = 0 /\ writer_lock = FALSE /\ out = <<>>
    /\ pool_width = max_workers
    /\ enqOrder = <<>> /\ deqOrder = <<>> /\ lockOrder = <<>>

\* The module as imported: no token, a folder object not yet loaded.  The
\* collection endpoint and the folder's endpoint serve the same chain.
LoaderInit ==
    /\ token = NoToken
    /\ \E c \in PageChains : server = [e \in {0, TheFolder} |-> c]
    /\ folder = [i \in {TheFolder} |-> NewFolder(i)]
    /\ last = NoCall
    /\ PoolUnused
    /\ EntitiesUnused

\* HttpInterface.init(token_string)
HttpInterface_init ==
    /\ \E t \in Tokens : token' = t
    /\ last' = [NoCall EXCEPT !.op = "init", !.before = folder[TheFolder]]
    /\ UNCHANGED <<server, folder>>
    /\ UNCHANGED poolVars /\ UNCHANGED histVars /\ UNCHANGED entVars

\* A direct call of HttpInterface.get(url) on the first page of the folder.
CallGet ==
    /\ \E kind \in {"ok"} \cup FaultKinds :
          LET resp == requests_get(server, FolderUrl(TheFolder), kind)
              got == HttpInterface_get(token, resp)
          IN  last' = [NoCall EXCEPT !.op = "get", !.raised = got.raised,
                                     !.requested = <<FolderUrl(TheFolder)>>,
                                     !.sent = IF got.sent THEN 1 ELSE 0,
                                     !.before = folder[TheFolder],
                                     !.status = resp.status,
                                     !.parsable = resp.parsable,
                                     !.value = got.value]
    /\ UNCHANGED <<token, server, folder>>
    /\ UNCHANGED poolVars /\ UNCHANGED histVars /\ UNCHANGED entVars

CallRecord(op, r, fault) ==
    [NoCall EXCEPT !.op = op, !.raised = r.raised, !.requested = r.requested,
                   !.sent = r.sent, !.events = r.events, !.result = r.result,
                   !.before = folder[TheFolder], !.fault = fault]

\* RESTObject.get_all()
CallGetAll ==
    /\ \E fault \in Faults(Len(server[0])) :
          last' = CallRecord("get_all", get_all(token, server, fault), fault)
    /\ UNCHANGED <<token, server, folder>>
    /\ UNCHANGED poolVars /\ UNCHANGED histVars /\ UNCHANGED entVars

\* folder.get_bookmarks()
CallGetBookmarks ==
    /\ \E fault \in Faults(Len(server[TheFolder])) :
          LET r == get_bookmarks(token, server, fault, folder[TheFolder])
          IN  /\ folder' = [folder EXCEPT ![TheFolder] = r.folder]
              /\ last' = CallRecord("get_bookmarks", r, fault)
    /\ UNCHANGED <<token, server>>
    /\ UNCHANGED poolVars /\ UNCHANGED histVars /\ UNCHANGED entVars

\* folder.refresh_bookmarks()
CallRefreshBookmarks ==
    /\ \E fault \in Faults(Len(server[TheFolder])) :
          LET r == refresh_bookmarks(token, server, fault, folder[TheFolder])
          IN  /\ folder' = [folder EXCEPT ![TheFolder] = r.folder]
              /\ last' = CallRecord("refresh_bookmarks", r, fault)
    /\ UNCHANGED <<token, server>>
    /\ UNCHANGED poolVars /\ UNCHANGED histVars /\ UNCHANGED entVars

LoaderNext ==
    \/ HttpInterface_init
    \/ CallGet
    \/ CallGetAll
    \/ CallGetBookmarks
    \/ CallRefreshBookmarks

LoaderSpec == LoaderInit /\ [][LoaderNext]_vars

\* ------------------------------------------------- properties of LoaderSpec
RECURSIVE Flatten(_)
Flatten(chain) == IF chain = <<>> THEN <<>> ELSE Head(chain) \o Flatten(Tail(chain))

RECURSIVE SumLens(_)
SumLens(chain) == IF chain = <<>> THEN 0 ELSE Len(Head(chain)) + SumLens(Tail(chain))

ChainUrls(ep) == [p \in 1..Len(server[ep]) |-> PageUrl(ep, p)]
TokenOk == token = "secret"
Range(seq) == {seq[i] : i \in 1..Len(seq)}

\* The last call walked the folder's pages: a refresh, or a get_bookmarks on a
\* folder that was not loaded.
LastFetchedFolder ==
    \/ last.op = "refresh_bookmarks"
    \/ last.op = "get_bookmarks" /\ ~last.before.fetched

\* C6: when every page request of a paginated fetch succeeds, get_all and
\* get_bookmarks request each page of the chain exactly once, in chain order,
\* and return the concatenation of the pages' results in page-then-within-page
\* order; the record count is the sum of the per-page counts.
C6_PaginationComplete ==
    /\ (last.op = "get_all" /\ last.fault = NoFault /\ TokenOk) =>
          /\ ~last.raised
          /\ last.requested = ChainUrls(0)
          /\ last.sent = Len(server[0])
          /\ last.result = Decode("RESTObject", Flatten(server[0]))
          /\ Len(last.result) = SumLens(server[0])
    /\ (LastFetchedFolder /\ last.fault = NoFault /\ TokenOk) =>
          /\ ~last.raised
          /\ last.requested = ChainUrls(TheFolder)
          /\ last.sent = Len(server[TheFolder])
          /\ last.result = Decode("Bookmark", Flatten(server[TheFolder]))
          /\ Len(last.result) = SumLens(server[TheFolder])

C6_Witness ==
    /\ last.op = "get_bookmarks" /\ ~last.raised
    /\ Len(last.requested) = 2
    /\ Len(server[TheFolder][1]) = 2 /\ Len(server[TheFolder][2]) = 1
    /\ Len(last.result) = 3

\* The records of the pages a raised fetch had read before the failing request.
PagesReadBeforeFailure(cls, ep) ==
    Range(Decode(cls, Flatten(SubSeq(server[ep], 1, Len(last.requested) - 1))))

\* C7: when a page request after the first fails, the error surfaces, the
\* caller receives no partial result, and the folder's bookmarks list does not
\* hold the records of the pages read so far while the folder is not loaded.
C7_PartialPagesDiscarded ==
    (last.raised /\ Len(last.requested) > 1) =>
        /\ last.result = <<>>
        /\ (LastFetchedFolder /\ ~folder[TheFolder].fetched) =>
              Range(folder[TheFolder].bookmarks)
                  \cap PagesReadBeforeFailure("Bookmark", TheFolder) = {}

\* C8: get_bookmarks on a loaded folder issues no request, returns the cached
\* bookmarks and leaves the folder as it was.
C8_CachedLoadIssuesNoRequest ==
    (last.op = "get_bookmarks" /\ last.before.fetched) =>
        /\ last.requested = <<>>
        /\ last.sent = 0
        /\ ~last.raised
        /\ last.result = last.before.bookmarks
        /\ folder[TheFolder] = last.before

C8_Witness ==
    /\ last.op = "get_bookmarks" /\ last.before.fetched
    /\ Len(last.result) >= 2
    /\ Len(server[TheFolder]) = 2

\* C9: refresh_bookmarks always starts a fetch sequence at the folder's first
\* page, whatever the folder held; when it succeeds the folder is loaded and
\* its bookmarks are exactly the records fetched by this sequence.
C9_RefreshRefetches ==
    last.op = "refresh_bookmarks" =>
        /\ last.requested # <<>>
        /\ last.requested[1] = FolderUrl(TheFolder)
        /\ ~last.raised =>
              /\ last.requested = ChainUrls(TheFolder)
              /\ folder[TheFolder].fetched
              /\ folder[TheFolder].bookmarks = Decode("Bookmark", Flatten(server[TheFolder]))

C9_Witness ==
    /\ last.op = "refresh_bookmarks" /\ ~last.raised
    /\ last.before.fetched /\ last.before.bookmarks # <<>>
    /\ Len(last.requested) = 2

\* C10: HttpInterface.get returns a value only for a response with a 2xx status
\* and a parsable body; it raises for every other response.
C10_GetRaisesUnlessSuccess ==
    (last.op = "get" /\ ~last.raised) =>
        /\ last.status \in 200..299
        /\ last.parsable

\* ====================================================================
\* Spec: the backup pipeline, src/LarderBackup.py lines 85-96.
\* ====================================================================
\* The pages the remote API serves for folder f during a backup run: two
\* one-record pages with descending titles, one page of two records with
\* equal titles, or an empty listing.
FolderPages(f) ==
    IF f % 3 = 1 THEN <<<<RawRecord(1)>>, <<RawRecord(2)>>>>
    ELSE IF f % 3 = 2 THEN <<<<RawRecord(3), RawRecord(1)>>>>
    ELSE <<<<>>>>

\* The lines of the output file.
Line(kind, f, b) == [kind |-> kind, f |-> f, b |-> b]
OUTPUT_HEADER == Line("HEADER", 0, 0)
OUTPUT_FOOTER == Line("FOOTER", 0, 0)
OUTPUT_FOLDER_HEADER(f) == Line("FOLDER_HEADER", f, 0)
OUTPUT_FOLDER_FOOTER(f) == Line("FOLDER_FOOTER", f, 0)
OUTPUT_BM(f, bm) == Line("BM", f, bm.id)

\* A variant of the insertion that puts a bookmark before those of equal title.
InsertBeforeEqualTitles(s, b) ==
    LET k == Cardinality({i \in 1..Len(s) : s[i].title < b.title})
    IN  SubSeq(s, 1, k) \o <<b>> \o SubSeq(s, k + 1, Len(s))

\* sorted(bookmarks, key=attrgetter("title")): a stable sort by title.
InsertByTitle(s, b) ==
    LET k == Cardinality({i \in 1..Len(s) : s[i].title <= b.title})
    IN  SubSeq(s, 1, k) \o <<b>> \o SubSeq(s, k + 1, Len(s))

RECURSIVE sorted_by_title(_)
sorted_by_title(s) ==
    IF s = <<>> THEN <<>>
    ELSE InsertByTitle(sorted_by_title(SubSeq(s, 1, Len(s) - 1)), s[Len(s)])

\* Tasks in submission order: fetch1, write1, fetch2, write2, ...
FetchIndex(i) == 2 * i - 1
WriteIndex(i) == 2 * i
NFolders == Len(folders)
Tasks == 1..NFolders

FetchStarted(i) == ftask[i] \notin {"idle", "queued"}
WriteStarted(i) == wtask[i] \notin {"idle", "queued"}
FetchOver(i) == ftask[i] \in {"done", "failed"}
WriteOver(i) == wtask[i] \in {"done", "failed"}

\* Worker threads that are running a task.
Running ==
    Cardinality({i \in Tasks : FetchStarted(i) /\ ~FetchOver(i)})
    + Cardinality({i \in Tasks : WriteStarted(i) /\ ~WriteOver(i)})

\* A variant of the executor in which a free worker takes any submitted task.
CanStartAnyTask(k) == Running < pool_width

\* A worker takes the oldest work item of the executor's queue: the task with
\* submission index k starts when every task submitted before it has started
\* and a worker is free.
CanStart(k) ==
    /\ Running < pool_width
    /\ \A i \in Tasks : /\ FetchIndex(i) < k => FetchStarted(i)
                        /\ WriteIndex(i) < k => WriteStarted(i)

\* A variant of Queue.get that returns the oldest item and leaves it queued.
queue_peek(q) == [item |-> Head(q), rest |-> q]

\* A variant of Queue.get that returns the newest item.
queue_get_newest(q) == [item |-> q[Len(q)], rest |-> SubSeq(q, 1, Len(q) - 1)]

\* Queue.get on a non-empty queue: the oldest item, removed.
queue_get(q) == [item |-> Head(q), rest |-> Tail(q)]

\* A variant of Lock.acquire that never blocks.
can_acquire_always(locked) == TRUE

\* Lock.acquire (entering "with writer_lock") succeeds when the lock is free.
can_acquire(locked) == ~locked

\* A variant of the barrier that does not wait.
as_completed_no_wait(states) == TRUE

\* list(as_completed(futures)) returns when every future is done, whether it
\* finished or raised; the futures' results are never asked for.
as_completed(states) == \A i \in DOMAIN states : states[i] \in {"done", "failed"}

\* backup() at line 85: the client is initialised, the work list is known,
\* nothing is submitted or written.
BackupAtLine85 ==
    /\ token = "secret"
    /\ \E n \in 0..MaxFolders :
          /\ folders = [i \in 1..n |-> i]
          /\ server = [f \in 1..n |-> FolderPages(f)]
          /\ folder = [f \in 1..n |-> NewFolder(f)]
          /\ ftask = [i \in 1..n |-> "idle"]
          /\ wtask = [i \in 1..n |-> "idle"]
          /\ wfolder = [i \in 1..n |-> 0]
          /\ pending = [i \in 1..n |-> <<>>]
    /\ last = NoCall
    /\ main = "header" /\ nsub = 0
    /\ task_queue = <<>> /\ unfinished = 0 /\ writer_lock = FALSE /\ out = <<>>
    /\ enqOrder = <<>> /\ deqOrder = <<>> /\ lockOrder = <<>>
    /\ EntitiesUnused

\* The pool of backup() has max_workers threads.
Init ==
    /\ BackupAtLine85
    /\ pool_width = max_workers

\* out_file.write(OUTPUT_HEADER)
WriteHeader ==
    /\ main = "header"
    /\ out' = Append(out, OUTPUT_HEADER)
    /\ main' = IF NFolders = 0 THEN "wait_fetches" ELSE "submit"
    /\ UNCHANGED <<pool_width, folders, nsub, ftask, wtask, wfolder, pending, task_queue,
                   unfinished, writer_lock>>
    /\ UNCHANGED apiVars /\ UNCHANGED histVars /\ UNCHANGED entVars

\* fetches.append(executor.submit(_load_folder, f, task_queue))
SubmitFetch ==
    /\ main = "submit" /\ nsub % 2 = 0
    /\ ftask' = [ftask EXCEPT ![nsub \div 2 + 1] = "queued"]
    /\ nsub' = nsub + 1
    /\ UNCHANGED <<pool_width, folders, main, wtask, wfolder, pending, task_queue,
                   unfinished, writer_lock, out>>
    /\ UNCHANGED apiVars /\ UNCHANGED histVars /\ UNCHANGED entVars

\* writes.append(executor.submit(_process_folder, out_file, task_queue))
SubmitWrite ==
    /\ main = "submit" /\ nsub % 2 = 1
    /\ wtask' = [wtask EXCEPT ![(nsub + 1) \div 2] = "queued"]
    /\ nsub' = nsub + 1
    /\ main' = IF nsub + 1 = 2 * NFolders THEN "wait_fetches" ELSE "submit"
    /\ UNCHANGED <<pool_width, folders, ftask, wfolder, pending, task_queue,
                   unfinished, writer_lock, out>>
    /\ UNCHANGED apiVars /\ UNCHANGED histVars /\ UNCHANGED entVars

\* A worker thread picks up a _load_folder task.
StartFetch(i) ==
    /\ ftask[i] = "queued" /\ CanStart(FetchIndex(i))
    /\ ftask' = [ftask EXCEPT ![i] = "refresh"]
    /\ UNCHANGED <<pool_width, folders, main, nsub, wtask, wfolder, pending, task_queue,
                   unfinished, writer_lock, out>>
    /\ UNCHANGED apiVars /\ UNCHANGED histVars /\ UNCHANGED entVars

\* A worker thread picks up a _process_folder task.
StartWrite(i) ==
    /\ wtask[i] = "queued" /\ CanStart(WriteIndex(i))
    /\ wtask' = [wtask EXCEPT ![i] = "get"]
    /\ UNCHANGED <<pool_width, folders, main, nsub, ftask, wfolder, pending, task_queue,
                   unfinished, writer_lock, out>>
    /\ UNCHANGED apiVars /\ UNCHANGED histVars /\ UNCHANGED entVars

\* A variant of _load_folder that goes on to enqueue the folder when
\* refresh_bookmarks has raised.
LoadFolder_refresh_ignoring_errors(i) ==
    /\ ftask[i] = "refresh"
    /\ \E fault \in Faults(Len(server[folders[i]])) :
          LET r == refresh_bookmarks(token, server, fault, folder[folders[i]])
          IN  /\ folder' = [folder EXCEPT ![folders[i]] = r.folder]
              /\ ftask' = [ftask EXCEPT ![i] = "put"]
    /\ UNCHANGED <<token, server, last>>
    /\ UNCHANGED <<pool_width, folders, main, nsub, wtask, wfolder, pending, task_queue,
                   unfinished, writer_lock, out>>
    /\ UNCHANGED histVars /\ UNCHANGED entVars

\* _load_folder, line 40: folder.refresh_bookmarks().  An exception ends the
\* task: its future holds the exception and nothing is enqueued.
LoadFolder_refresh(i) ==
    /\ ftask[i] = "refresh"
    /\ \E fault \in Faults(Len(server[folders[i]])) :
          LET r == refresh_bookmarks(token, server, fault, folder[folders[i]])
          IN  /\ folder' = [folder EXCEPT ![folders[i]] = r.folder]
              /\ ftask' = [ftask EXCEPT ![i] = IF r.raised THEN "failed" ELSE "put"]
    /\ UNCHANGED <<token, server, last>>
    /\ UNCHANGED <<pool_width, folders, main, nsub, wtask, wfolder, pending, task_queue,
                   unfinished, writer_lock, out>>
    /\ UNCHANGED histVars /\ UNCHANGED entVars

\* A variant of _load_folder that puts the folder on the queue twice.
LoadFolder_put_twice(i) ==
    /\ ftask[i] = "put"
    /\ task_queue' = task_queue \o <<folders[i], folders[i]>>
    /\ unfinished' = unfinished + 2
    /\ enqOrder' = enqOrder \o <<folders[i], folders[i]>>
    /\ ftask' = [ftask EXCEPT ![i] = "sleep"]
    /\ UNCHANGED <<pool_width, folders, main, nsub, wtask, wfolder, pending, writer_lock, out>>
    /\ UNCHANGED apiVars /\ UNCHANGED <<deqOrder, lockOrder>> /\ UNCHANGED entVars

\* _load_folder, line 41: task_queue.put_nowait(folder)
LoadFolder_put(i) ==
    /\ ftask[i] = "put"
    /\ task_queue' = Append(task_queue, folders[i])
    /\ unfinished' = unfinished + 1
    /\ enqOrder' = Append(enqOrder, folders[i])
    /\ ftask' = [ftask EXCEPT ![i] = "sleep"]
    /\ UNCHANGED <<pool_width, folders, main, nsub, wtask, wfolder, pending, writer_lock, out>>
    /\ UNCHANGED apiVars /\ UNCHANGED <<deqOrder, lockOrder>> /\ UNCHANGED entVars

\* _load_folder, line 42: sleep(1), then the task returns.
LoadFolder_sleep(i) ==
    /\ ftask[i] = "sleep"
    /\ ftask' = [ftask EXCEPT ![i] = "done"]
    /\ UNCHANGED <<pool_width, folders, main, nsub, wtask, wfolder, pending, task_queue,
                   unfinished, writer_lock, out>>
    /\ UNCHANGED apiVars /\ UNCHANGED histVars /\ UNCHANGED entVars

\* _process_folder, line 47: folder_object = task_queue.get(), which blocks
\* while the queue is empty.
ProcessFolder_get(i) ==
    /\ wtask[i] = "get"
    /\ task_queue # <<>>
    /\ wfolder' = [wfolder EXCEPT ![i] = queue_get(task_queue).item]
    /\ task_queue' = queue_get(task_queue).rest
    /\ deqOrder' = Append(deqOrder, queue_get(task_queue).item)
    /\ wtask' = [wtask EXCEPT ![i] = "lock"]
    /\ UNCHANGED <<pool_width, folders, main, nsub, ftask, pending, unfinished, writer_lock, out>>
    /\ UNCHANGED apiVars /\ UNCHANGED <<enqOrder, lockOrder>> /\ UNCHANGED entVars

\* _process_folder, line 48: with writer_lock
ProcessFolder_acquire(i) ==
    /\ wtask[i] = "lock"
    /\ can_acquire(writer_lock)
    /\ writer_lock' = TRUE
    /\ lockOrder' = Append(lockOrder, wfolder[i])
    /\ wtask' = [wtask EXCEPT ![i] = "header"]
    /\ UNCHANGED <<pool_width, folders, main, nsub, ftask, wfolder, pending, task_queue,
                   unfinished, out>>
    /\ UNCHANGED apiVars /\ UNCHANGED <<enqOrder, deqOrder>> /\ UNCHANGED entVars

\* _dump_folder_to_output, lines 56-59: the folder header is written and the
\* bookmarks are sorted by title for the loop.
Dump_header(i) ==
    /\ wtask[i] = "header"
    /\ out' = Append(out, OUTPUT_FOLDER_HEADER(wfolder[i]))
    /\ pending' = [pending EXCEPT ![i] = sorted_by_title(folder[wfolder[i]].bookmarks)]
    /\ wtask' = [wtask EXCEPT ![i] = "bookmarks"]
    /\ UNCHANGED <<pool_width, folders, main, nsub, ftask, wfolder, task_queue,
                   unfinished, writer_lock>>
    /\ UNCHANGED apiVars /\ UNCHANGED histVars /\ UNCHANGED entVars

\* _dump_folder_to_output, lines 59-63: one line per bookmark.
Dump_bookmark(i) ==
    /\ wtask[i] = "bookmarks"
    /\ pending[i] # <<>>
    /\ out' = Append(out, OUTPUT_BM(wfolder[i], Head(pending[i])))
    /\ pending' = [pending EXCEPT ![i] = Tail(@)]
    /\ UNCHANGED <<pool_width, folders, main, nsub, ftask, wtask, wfolder, task_queue,
                   unfinished, writer_lock>>
    /\ UNCHANGED apiVars /\ UNCHANGED histVars /\ UNCHANGED entVars

\* _dump_folder_to_output, line 64: the folder footer is written; the function
\* returns and the with block releases writer_lock.
Dump_footer(i) ==
    /\ wtask[i] = "bookmarks"
    /\ pending[i] = <<>>
    /\ out' = Append(out, OUTPUT_FOLDER_FOOTER(wfolder[i]))
    /\ writer_lock' = FALSE
    /\ wtask' = [wtask EXCEPT ![i] = "task_done"]
    /\ UNCHANGED <<pool_width, folders, main, nsub, ftask, wfolder, pending, task_queue, unfinished>>
    /\ UNCHANGED apiVars /\ UNCHANGED histVars /\ UNCHANGED entVars

\* _process_folder, line 50: task_queue.task_done(), then the task returns.
ProcessFolder_task_done(i) ==
    /\ wtask[i] = "task_done"
    /\ unfinished' = unfinished - 1
    /\ wtask' = [wtask EXCEPT ![i] = "done"]
    /\ UNCHANGED <<pool_width, folders, main, nsub, ftask, wfolder, pending, task_queue,
                   writer_lock, out>>
    /\ UNCHANGED apiVars /\ UNCHANGED histVars /\ UNCHANGED entVars

\* backup, line 91: fetches_done = list(as_completed(fetches))
FetchesDone ==
    /\ main = "wait_fetches"
    /\ as_completed(ftask)
    /\ main' = "wait_writes"
    /\ UNCHANGED <<pool_width, folders, nsub, ftask, wtask, wfolder, pending, task_queue,
                   unfinished, writer_lock, out>>
    /\ UNCHANGED apiVars /\ UNCHANGED histVars /\ UNCHANGED entVars

\* backup, line 93: writes_done = list(as_completed(writes))
WritesDone ==
    /\ main = "wait_writes"
    /\ as_completed(wtask)
    /\ main' = "footer"
    /\ UNCHANGED <<pool_width, folders, nsub, ftask, wtask, wfolder, pending, task_queue,
                   unfinished, writer_lock, out>>
    /\ UNCHANGED apiVars /\ UNCHANGED histVars /\ UNCHANGED entVars

\* backup, lines 95-96: out_file.write(OUTPUT_FOOTER); the with blocks close
\* the file and shut the executor down, and backup returns.
WriteFooter ==
    /\ main = "footer"
    /\ out' = Append(out, OUTPUT_FOOTER)
    /\ main' = "done"
    /\ UNCHANGED <<pool_width, folders, nsub, ftask, wtask, wfolder, pending, task_queue,
                   unfinished, writer_lock>>
    /\ UNCHANGED apiVars /\ UNCHANGED histVars /\ UNCHANGED entVars

Next ==
    \/ WriteHeader
    \/ SubmitFetch
    \/ SubmitWrite
    \/ \E i \in Tasks : StartFetch(i)
    \/ \E i \in Tasks : StartWrite(i)
    \/ \E i \in Tasks : LoadFolder_refresh(i)
    \/ \E i \in Tasks : LoadFolder_put(i)
    \/ \E i \in Tasks : LoadFolder_sleep(i)
    \/ \E i \in Tasks : ProcessFolder_get(i)
    \/ \E i \in Tasks : ProcessFolder_acquire(i)
    \/ \E i \in Tasks : Dump_header(i)
    \/ \E i \in Tasks : Dump_bookmark(i)
    \/ \E i \in Tasks : Dump_footer(i)
    \/ \E i \in Tasks : ProcessFolder_task_done(i)
    \/ FetchesDone
    \/ WritesDone
    \/ WriteFooter

Spec == Init /\ [][Next]_vars

\* ------------------------------------------------------ properties of Spec
Count(s, x) == Cardinality({k \in 1..Len(s) : s[k] = x})
IsFolderHeader(l) == l.kind = "FOLDER_HEADER"

\* The folders of the blocks begun in the output, in file order.
BlockOrder ==
    LET hs == SelectSeq(out, IsFolderHeader) IN [k \in 1..Len(hs) |-> hs[k].f]

IsPrefix(s, t) == Len(s) <= Len(t) /\ s = SubSeq(t, 1, Len(s))
InDump(i) == wtask[i] \in {"header", "bookmarks"}
AllFetchesSucceeded == \A i \in Tasks : ftask[i] = "done"
SomeFetchFailed == \E i \in Tasks : ftask[i] = "failed"

\* C1: a completed run whose fetches all succeeded has written exactly one
\* folder block (one header, one footer) for each folder of the work list, and
\* no other block.
C1_EveryFolderWrittenOnce ==
    (main = "done" /\ AllFetchesSucceeded) =>
        /\ Len(BlockOrder) = NFolders
        /\ \A i \in Tasks :
              /\ Count(out, OUTPUT_FOLDER_HEADER(folders[i])) = 1
              /\ Count(out, OUTPUT_FOLDER_FOOTER(folders[i])) = 1

C1_Witness ==
    /\ main = "done" /\ AllFetchesSucceeded
    /\ NFolders >= 2
    /\ Len(BlockOrder) = NFolders

\* C2: at most one write task is inside _dump_folder_to_output, and in the
\* output every bookmark line and folder footer directly follows a line of the
\* same folder's block, and every folder header follows the document header
\* or a folder footer: blocks are contiguous and never interleaved.
C2_OneWriterBlocksContiguous ==
    /\ Cardinality({i \in Tasks : InDump(i)}) <= 1
    /\ \A k \in 1..Len(out) :
          /\ out[k].kind \in {"BM", "FOLDER_FOOTER"} =>
                /\ k > 1
                /\ out[k - 1].kind \in {"FOLDER_HEADER", "BM"}
                /\ out[k - 1].f = out[k].f
          /\ out[k].kind = "FOLDER_HEADER" =>
                /\ k > 1
                /\ out[k - 1].kind \in {"HEADER", "FOLDER_FOOTER"}

C2_Witness ==
    \E i, j \in Tasks :
        /\ wtask[i] = "bookmarks" /\ wtask[j] = "lock"
        /\ out[Len(out)].kind = "BM"
        /\ pending[i] # <<>>

\* C3: when a fetch task has raised, the run does not end as a successful run,
\* and it either can still take a step or has ended as a failed run: it never
\* stays blocked.
C3_FetchErrorEndsRunFailed ==
    SomeFetchFailed =>
        /\ main # "done"
        /\ main = "failed" \/ ENABLED Next

\* C4 as claimed: in a completed run the blocks are in the file in the order
\* in which the folders were enqueued.
C4_BlocksInEnqueueOrder ==
    main = "done" => BlockOrder = enqOrder

\* C4 as amended: write tasks dequeue the folders in the order in which they
\* were enqueued, and the blocks are in the file in the order in which the
\* write tasks took the writer lock.
C4_BlocksInLockOrder ==
    /\ IsPrefix(deqOrder, enqOrder)
    /\ IsPrefix(BlockOrder, lockOrder)
    /\ main = "done" => (deqOrder = enqOrder /\ BlockOrder = lockOrder)

C4_Witness ==
    /\ main = "done"
    /\ Len(enqOrder) >= 2
    /\ BlockOrder = lockOrder
    /\ BlockOrder # enqOrder

\* C5: the document header is in the stream before any task is submitted; the
\* orchestrator passes the fetch barrier only when every fetch task is over
\* and reaches the footer only when every write task is over too, with no
\* task inside the serialization; the stream of a completed run is the header,
\* then only folder-block lines, then the footer.
C5_HeaderFirstFooterLast ==
    /\ main = "header" => (nsub = 0 /\ out = <<>>)
    /\ nsub > 0 => (out # <<>> /\ out[1] = OUTPUT_HEADER)
    /\ main \in {"wait_writes", "footer", "done"} => \A i \in Tasks : FetchOver(i)
    /\ main \in {"footer", "done"} =>
          /\ \A i \in Tasks : WriteOver(i)
          /\ ~writer_lock
    /\ Count(out, OUTPUT_FOOTER) > 0 => main = "done"
    /\ main = "done" =>
          /\ out[1] = OUTPUT_HEADER
          /\ out[Len(out)] = OUTPUT_FOOTER
          /\ \A k \in 2..(Len(out) - 1) :
                out[k].kind \in {"FOLDER_HEADER", "BM", "FOLDER_FOOTER"}

C5_Witness ==
    /\ main = "done"
    /\ NFolders >= 2
    /\ Len(out) > 2 + 2 * NFolders

\* ====================================================================
\* EntitySpec: one client creating instances and calling save, delete,
\* load, Folder.get_all and the opening lines of backup().
\* ====================================================================
\* The folders the collection endpoint lists: two pages of one folder each.
FolderListing == <<<<RawRecord(1)>>, <<RawRecord(2)>>>>

PostStatuses == {201, 200, 400}
DeleteStatuses == {204, 404}

EntityInit ==
    /\ token = NoToken
    /\ server = [e \in {0} |-> FolderListing]
    /\ folder = [i \in {TheFolder} |-> NewFolder(i)]
    /\ last = NoCall
    /\ PoolUnused
    /\ EntitiesUnused

EntityCall(op, r) ==
    [NoEntityCall EXCEPT !.op = op, !.token = token, !.error = r.error,
                         !.requests = r.requests, !.sent = Len(r.requests),
                         !.before = entity, !.cache_before = cache]

\* Tag(...), Bookmark(...), Folder(...): a new instance replaces the one held.
NewEntity ==
    /\ \E cls \in Classes, id \in {NoId, EmptyId} \cup EntityIds,
          name \in {None} \cup Names :
          entity' = Entity(cls, id, name, None)
    /\ call' = [NoEntityCall EXCEPT !.op = "new", !.token = token]
    /\ UNCHANGED <<cache, token, server, folder, last>>
    /\ UNCHANGED poolVars /\ UNCHANGED histVars

\* tag.created = "blah": a field of a Tag is assigned by the caller.
SetCreated ==
    /\ entity.cls = "Tag"
    /\ entity' = [entity EXCEPT !.created = "blah"]
    /\ call' = [NoEntityCall EXCEPT !.op = "setattr", !.token = token]
    /\ UNCHANGED <<cache, token, server, folder, last>>
    /\ UNCHANGED poolVars /\ UNCHANGED histVars

\* entity.save()
CallSave ==
    /\ \E status \in PostStatuses, newid \in EntityIds :
          LET r == save(token, entity, cache, status, newid)
          IN  /\ entity' = r.entity
              /\ cache' = r.cache
              /\ call' = EntityCall("save", r)
    /\ UNCHANGED <<token, server, folder, last>>
    /\ UNCHANGED poolVars /\ UNCHANGED histVars

\* entity.delete()
CallDelete ==
    /\ \E status \in DeleteStatuses :
          LET r == delete(token, entity, cache, status)
          IN  /\ entity' = r.entity
              /\ cache' = r.cache
              /\ call' = EntityCall("delete", r)
    /\ UNCHANGED <<token, server, folder, last>>
    /\ UNCHANGED poolVars /\ UNCHANGED histVars

\* entity.load()
CallLoad ==
    /\ \E kind \in {"ok"} \cup FaultKinds :
          LET r == load(token, entity, cache, kind)
          IN  /\ entity' = r.entity
              /\ cache' = r.cache
              /\ call' = EntityCall("load", r)
    /\ UNCHANGED <<token, server, folder, last>>
    /\ UNCHANGED poolVars /\ UNCHANGED histVars

\* Folder.get_all()
CallFolderGetAll ==
    /\ \E fault \in Faults(Len(server[0])) :
          LET r == Folder_get_all(token, server, fault, cache)
          IN  /\ cache' = r.cache
              /\ call' = [NoEntityCall EXCEPT !.op = "Folder.get_all", !.token = token,
                                              !.error = r.error, !.sent = r.sent,
                                              !.before = entity, !.cache_before = cache,
                                              !.result = r.result]
    /\ UNCHANGED <<entity, token, server, folder, last>>
    /\ UNCHANGED poolVars /\ UNCHANGED histVars

\* backup(token, target_folder) up to the opening of the output file.
CallBackup ==
    /\ \E t \in Tokens, fault \in Faults(Len(server[0])) :
          LET r == backup_until_open(t, server, fault, cache)
          IN  /\ token' = t
              /\ call' = [NoEntityCall EXCEPT !.op = "backup", !.token = t,
                                              !.error = r.error, !.sent = r.sent,
                                              !.before = entity, !.cache_before = cache,
                                              !.opened = r.opened]
    /\ UNCHANGED <<entity, cache, server, folder, last>>
    /\ UNCHANGED poolVars /\ UNCHANGED histVars

EntityNext ==
    \/ HttpInterface_init
    \/ NewEntity
    \/ SetCreated
    \/ CallSave
    \/ CallDelete
    \/ CallLoad
    \/ CallFolderGetAll
    \/ CallBackup

EntitySpec == EntityInit /\ [][EntityNext]_vars

\* --------------------------------------------------------------------
\* Properties of EntitySpec
\* --------------------------------------------------------------------
\* Whether the call recorded reaches HttpInterface.get, post or delete.
InvokesHttp ==
    \/ call.op = "Folder.get_all"
    \/ call.op = "save" /\ ~(call.before.cls = "Tag" /\ call.before.name = None)
    \/ call.op = "delete" /\ call.before.id # NoId
    \/ call.op = "load" /\ call.before.cls = "RESTObject" /\ call.before.id # NoId

\* C11: with no token configured (unset or empty), every call that reaches
\* HttpInterface.get, post or delete raises the exception of build_headers
\* and no HTTP request leaves; a backup started with such a token raises
\* before the output file is opened, and nothing is written.
C11_NoTokenFailsFast ==
    call.token \in {NoToken, ""} =>
        /\ call.sent = 0 /\ call.requests = <<>>
        /\ InvokesHttp => call.error = "Exception"
        /\ call.op = "backup" => call.error # "" /\ ~call.opened /\ out = <<>>

C11_Witness ==
    /\ call.op = "save" /\ call.token = "" /\ call.before.cls = "Bookmark"
    /\ call.error = "Exception" /\ call.sent = 0

\* C12: save on a Tag whose name is None raises ValueError before any
\* request, whatever its id and created hold, and leaves every field of the
\* tag (and the folder cache) as it was.
C12_NamelessTagSaveRejected ==
    (call.op = "save" /\ call.before.cls = "Tag" /\ call.before.name = None) =>
        /\ call.error = "ValueError"
        /\ call.requests = <<>> /\ call.sent = 0
        /\ entity = call.before
        /\ cache = call.cache_before

C12_Witness ==
    /\ call.op = "save" /\ call.before.cls = "Tag" /\ call.before.name = None
    /\ call.before.created = "blah" /\ call.before.id = NoId
    /\ call.token = "secret"
    /\ call.error = "ValueError" /\ entity.id = NoId

\* A save that reached HttpInterface.post with a token: its request left.
SavePosted ==
    /\ call.op = "save" /\ call.token = "secret"
    /\ ~(call.before.cls = "Tag" /\ call.before.name = None)

\* What a successful create leaves: an id the server assigned, the name that
\* was posted, the server's timestamp.
CreatedByServer ==
    call.error = "" =>
        /\ entity.id \in EntityIds
        /\ entity.name = call.before.name
        /\ entity.created = "ts"

\* delete on an instance whose id is None sends nothing and returns; load on
\* it raises.
NoIdDeleteAndLoad ==
    /\ (call.op = "delete" /\ call.before.id = NoId) =>
            call.requests = <<>> /\ call.error = "" /\ entity = call.before
    /\ (call.op = "load" /\ call.before.id = NoId) =>
            call.requests = <<>> /\ call.error # ""

C19_FolderCacheFilled ==
    /\ (call.op = "Folder.get_all" /\ call.error = "") =>
            \A i \in 1..Len(call.result) : call.result[i].id \in DOMAIN cache
    /\ (call.op = "load" /\ call.before.cls = "Folder"
            /\ call.before.id \in DOMAIN call.cache_before) =>
            call.error = "" /\ entity = call.cache_before[call.before.id]
    /\ (call.op = "save" /\ call.before.cls = "Folder" /\ call.error = "") =>
            entity.id \in DOMAIN cache /\ cache[entity.id] = entity

\* The part of C19 the code keeps: a successful Folder.save leaves the saved
\* folder in the cache under its id, and nothing else changes the cache.
FolderSaveCaches ==
    /\ (call.op = "save" /\ call.before.cls = "Folder" /\ call.error = "") =>
            entity.id \in DOMAIN cache /\ cache[entity.id] = entity
    /\ ~(call.op = "save" /\ call.before.cls = "Folder" /\ call.error = "") =>
            (call.op \in {"none", "new", "setattr"} \/ cache = call.cache_before)

\* C20: load on a Bookmark or a Tag, with or without an id and whatever the
\* token and the server's answer would be, raises at once: no request is
\* sent and the instance and the cache are left as they were.
C20_UnsupportedLoadRaises ==
    (call.op = "load" /\ call.before.cls \in {"Bookmark", "Tag"}) =>
        /\ call.error # ""
        /\ call.requests = <<>> /\ call.sent = 0
        /\ entity = call.before
        /\ cache = call.cache_before

C20_Witness ==
    /\ call.op = "load" /\ call.before.cls = "Bookmark" /\ call.before.id = 1
    /\ call.token = "secret" /\ call.error = "TypeError" /\ call.requests = <<>>

\* ====================================================================
\* SortSpec: the backup of one folder whose only page carries any sequence
\* of up to MaxLen records (ids 1..3: two of the three titles are equal, and
\* a record can come twice).
\* ====================================================================
MaxLen == 3
RecordIds == {1, 2, 3}
RecordSeqs == UNION {[1..n -> {RawRecord(i) : i \in RecordIds}] : n \in 0..MaxLen}

SortInit ==
    /\ token = "secret"
    /\ folders = <<1>>
    /\ \E s \in RecordSeqs : server = [f \in {1} |-> <<s>>]
    /\ folder = [f \in {1} |-> NewFolder(f)]
    /\ ftask = <<"idle">> /\ wtask = <<"idle">>
    /\ wfolder = <<0>> /\ pending = << <<>> >>
    /\ last = NoCall
    /\ main = "header" /\ nsub = 0
    /\ task_queue = <<>> /\ unfinished = 0 /\ writer_lock = FALSE /\ out = <<>>
    /\ enqOrder = <<>> /\ deqOrder = <<>> /\ lockOrder = <<>>
    /\ pool_width = max_workers
    /\ EntitiesUnused

SortSpec == SortInit /\ [][Next]_vars

\* The bookmark lines of folder f in the output, in file order.
IsBookmarkLine(l) == l.kind = "BM"
BookmarkLines(f) ==
    LET IsOfF(l) == IsBookmarkLine(l) /\ l.f = f IN SelectSeq(out, IsOfF)

\* lines is bs rearranged by p: p[k] is the place in bs of the bookmark of
\* line k; titles ascend along the lines, and lines of equal title are in
\* the order of their places in bs.
StablySortedBy(p, lines, bs) ==
    /\ \A k, l \in DOMAIN p : k # l => p[k] # p[l]
    /\ \A k \in DOMAIN p : lines[k].b = bs[p[k]].id
    /\ \A k, l \in DOMAIN p : k < l =>
          /\ bs[p[k]].title <= bs[p[l]].title
          /\ bs[p[k]].title = bs[p[l]].title => p[k] < p[l]

\* C13: when a write task has serialized a folder, the bookmark lines of the
\* folder's block are a permutation of the folder's bookmarks, one line per
\* bookmark, in ascending title order, and bookmarks of equal title are in
\* their input order.
C13_BlockSortedStably ==
    \A i \in Tasks : wtask[i] \in {"task_done", "done"} =>
        LET bs == folder[wfolder[i]].bookmarks
            lines == BookmarkLines(wfolder[i])
        IN  /\ Len(lines) = Len(bs)
            /\ \E p \in [1..Len(bs) -> 1..Len(bs)] : StablySortedBy(p, lines, bs)

\* A block written from the input 1, 2, 3 (titles 1, 0, 1): 2 comes first and
\* 1 stays before 3.
C13_Witness ==
    /\ wtask = <<"done">>
    /\ server[1] = << <<RawRecord(1), RawRecord(2), RawRecord(3)>> >>
    /\ [k \in 1..3 |-> BookmarkLines(1)[k].b] = <<2, 1, 3>>

\* --------------------------------------------------------------------
\* Throttling of the paginated fetches (LoaderSpec)
\* --------------------------------------------------------------------
\* C14: in a paginated fetch (get_all, get_bookmarks, refresh_bookmarks) every
\* page request after the first directly follows a throttling sleep that
\* itself follows the previous page request, so a fetch that has made N page
\* requests has slept at least N - 1 times.
C14_SleepBetweenPageRequests ==
    last.op \in {"get_all", "get_bookmarks", "refresh_bookmarks"} =>
        LET ev == last.events
            N == Len(last.requested)
        IN  /\ Count(ev, "get") = N
            /\ \A k \in 1..Len(ev) : ev[k] = "get" =>
                  \/ k = 1
                  \/ k > 2 /\ ev[k - 1] = "sleep" /\ ev[k - 2] = "get"
            /\ N >= 1 => Count(ev, "sleep") >= N - 1

C14_Witness ==
    /\ last.op = "get_all" /\ ~last.raised
    /\ Len(last.requested) = 2
    /\ last.events = <<"get", "sleep", "get", "sleep">>

\* ====================================================================
\* PoolSpec: the pipeline of backup() run on an executor of any width from
\* 1 to MaxWidth (backup() itself fixes the width at max_workers), with weak
\* fairness: a run that can take a step eventually takes one.
\* ====================================================================
MaxWidth == 2

PoolInit ==
    /\ BackupAtLine85
    /\ pool_width \in 1..MaxWidth

PoolSpec == PoolInit /\ [][Next]_vars /\ WF_vars(Next)

\* Write tasks blocked in task_queue.get().
BlockedInGet == {i \in Tasks : wtask[i] = "get"}

\* Every worker is blocked in a write task on an empty queue while a fetch
\* task waits for a worker.
PoolStarved ==
    /\ task_queue = <<>>
    /\ Cardinality(BlockedInGet) = pool_width
    /\ \E i \in Tasks : ftask[i] = "queued"

\* C15: for every work list and every pool width, as long as no fetch has
\* failed the pool is never starved (all workers blocked in write tasks on an
\* empty queue, a fetch task waiting), the run is never stuck before its end,
\* and every run in which no fetch fails reaches completion.
C15_PipelineCompletes ==
    /\ [](~SomeFetchFailed => ~PoolStarved /\ (main = "done" \/ ENABLED Next))
    /\ <>(main = "done" \/ SomeFetchFailed)

\* A run on one worker has completed the backup of two folders.
C15_Witness ==
    /\ pool_width = 1 /\ NFolders = 2
    /\ main = "done" /\ AllFetchesSucceeded

\* --------------------------------------------------------------------
\* Hand-over of folders from fetch tasks to write tasks (Spec)
\* --------------------------------------------------------------------
\* The folders that have been enqueued so far.
Enqueued == {enqOrder[k] : k \in 1..Len(enqOrder)}

\* Folder f is loaded: the flag is set and the bookmarks are those of all the
\* pages the server holds for it, in order.
FullyLoaded(f) ==
    /\ folder[f].fetched
    /\ folder[f].bookmarks = Decode("Bookmark", Flatten(server[f]))

\* The fetch tasks of folder f.
FetchTasksOf(f) == {i \in Tasks : folders[i] = f}

HandedOverLoaded ==
    /\ \A f \in Enqueued :
          /\ FullyLoaded(f)
          /\ Count(enqOrder, f) = 1
          /\ \A i \in FetchTasksOf(f) : ftask[i] \in {"sleep", "done"}
    /\ \A f \in DOMAIN folder : Cardinality(FetchTasksOf(f)) = 1
    /\ \A i \in Tasks : wtask[i] \notin {"idle", "queued", "get"} =>
          /\ wfolder[i] \in Enqueued
          /\ Count(deqOrder, wfolder[i]) = 1

\* C16: every folder that is enqueued, dequeued or being serialized is fully
\* loaded (flag set, all pages' bookmarks) by its fetch task, which is past
\* refresh_bookmarks; each folder has exactly one fetch task and is enqueued
\* and dequeued once; and no step changes a folder once it is enqueued.
C16_WrittenFoldersLoaded ==
    /\ []HandedOverLoaded
    /\ [][\A f \in Enqueued : folder'[f] = folder[f]]_vars

C16_Witness ==
    \E i \in Tasks :
        /\ wtask[i] = "bookmarks" /\ pending[i] # <<>>
        /\ Len(folder[wfolder[i]].bookmarks) = 2
        /\ FullyLoaded(wfolder[i])
        /\ \E j \in Tasks : ftask[j] = "refresh"

\* --------------------------------------------------------------------
\* Accounting of the shared queue (Spec)
\* --------------------------------------------------------------------
\* Write tasks that have returned from task_queue.get().
PastGet == {i \in Tasks : wtask[i] \notin {"idle", "queued", "get"}}

\* C17: the number of folders enqueued is the queue length plus the number
\* dequeued, and is at most the number of folders; every write task past
\* task_queue.get() accounts for exactly one dequeue; the queue's count of
\* unfinished items is the enqueued folders not yet marked done; and a
\* completed run whose fetches all succeeded has enqueued and dequeued every
\* folder and left the queue empty.
C17_QueueAccounting ==
    /\ Len(enqOrder) = Len(task_queue) + Len(deqOrder)
    /\ enqOrder = deqOrder \o task_queue
    /\ Len(enqOrder) <= NFolders
    /\ Len(deqOrder) = Cardinality(PastGet)
    /\ unfinished = Len(enqOrder) - Cardinality({i \in Tasks : wtask[i] = "done"})
    /\ (main = "done" /\ AllFetchesSucceeded) =>
          /\ task_queue = <<>> /\ unfinished = 0
          /\ Len(enqOrder) = NFolders /\ Len(deqOrder) = NFolders

C17_Witness ==
    /\ main = "done" /\ AllFetchesSucceeded
    /\ NFolders = 2 /\ Len(deqOrder) = 2 /\ task_queue = <<>>

====
